---- MODULE Spec2Model ----
(***************************************************************************)
(* Conway's Game of Life on a toroidal grid, seeded by an LCG              *)
(* (src/src/main.rs).                                                      *)
(*                                                                         *)
(* A u64 is a sequence of 8 bytes, least significant first, because the    *)
(* model checker's integers are 32 bits wide; a u32 is 4 such bytes.       *)
(* A Coord is a record [x, y] of signed 16-bit integers.  The cell storage *)
(* is a function from 0..len-1 to {"Alive", "Dead"}, indexed as the Vec.   *)
(***************************************************************************)
EXTENDS Integers, Sequences, FiniteSets

VARIABLES
    pc,           \* position of the program / which API call happened last
    state,        \* LCG.state (u64 as 8 bytes)
    width,        \* GOL.width
    height,       \* GOL.height
    grid,         \* GOL.grid
    live_coords,  \* the coordinates the grid was constructed from
    gen,          \* number of completed GOL::step() calls
    overflow_checks, \* whether the build traps integer overflow (debug profile)
    panicked,     \* the program aborted with a panic
    accessed,     \* cell-storage indices used by the last operation
    call,         \* the last call: its name, arguments and result
    frames,       \* number of frames print_to_console has printed
    screen,       \* the grid shown by the last frame
    runs          \* two independent executions of the program (SpecRuns)

vars == <<pc, state, width, height, grid, live_coords, gen, overflow_checks,
          panicked, accessed, call, frames, screen, runs>>

----------------------------------------------------------------------------
(* Bounds of the model *)

MaxDim == 3        \* grids of every width, height in 1..MaxDim ...
MaxCells == 9      \* ... with at most MaxCells cells
MaxPermCells == 4  \* grids whose cells are visited in every possible order
MaxGen == 3        \* step() calls per run
MaxDraws == 12     \* random_u32 calls per generator
MaxTake == 3       \* coordinates drawn by random_coords
MaxLive == 2       \* length of the coordinate lists given to from_iter
MaxOff == 4
MaxPatternGen == 8        \* coordinates -MaxOff..MaxOff besides the i16 extremes

----------------------------------------------------------------------------
(* Machine integers *)

I16Min == -32768
I16Max == 32767
U8Max == 255

RECURSIVE SumTo(_, _)
SumTo(f, n) == IF n = 0 THEN 0 ELSE f[n] + SumTo(f, n - 1)

U64Zero == <<0, 0, 0, 0, 0, 0, 0, 0>>

\* u64::overflowing_mul: the low 64 bits of the product (the overflow flag
\* is discarded by the caller).  Byte k of the product is column k of the
\* schoolbook multiplication plus the carry of column k-1.
RECURSIVE MulBytes(_, _, _, _)
MulBytes(a, b, k, carry) ==
    IF k > 8 THEN <<>>
    ELSE LET col == [i \in 1..k |-> a[i] * b[k + 1 - i]]
             t == carry + SumTo(col, k)
         IN  <<t % 256>> \o MulBytes(a, b, k + 1, t \div 256)

overflowing_mul(a, b) == MulBytes(a, b, 1, 0)

\* u64::overflowing_add: the low 64 bits of the sum.
RECURSIVE AddBytes(_, _, _, _)
AddBytes(a, b, k, carry) ==
    IF k > 8 THEN <<>>
    ELSE LET t == a[k] + b[k] + carry
         IN  <<t % 256>> \o AddBytes(a, b, k + 1, t \div 256)

overflowing_add(a, b) == AddBytes(a, b, 1, 0)

\* (s >> 32) as u32: the upper four bytes.
Shr32(s) == <<s[5], s[6], s[7], s[8]>>

\* u32 as i16: the low 16 bits, reinterpreted in two's complement.
AsI16(u) ==
    LET lo == u[1] + 256 * u[2]
    IN  IF lo > I16Max THEN lo - 65536 ELSE lo

\* u64 from a small natural number (a seed).
U64Of(n) == <<n % 256, (n \div 256) % 256, (n \div 65536) % 256,
              (n \div 16777216) % 256, 0, 0, 0, 0>>

----------------------------------------------------------------------------
(* LCG *)

RAND_A == <<45, 127, 149, 76, 45, 244, 81, 88>>     \* 6364136223846793005
RAND_C == <<79, 129, 103, 247, 126, 123, 5, 20>>    \* 1442695040888963407

LCG_new(seed) == seed

\* A generator that returns the low half of the state instead of the high.
RandomU32LowBits(s) ==
    LET s1 == overflowing_mul(s, RAND_A)
        s2 == overflowing_add(s1, RAND_C)
    IN  [state |-> s2, value |-> <<s2[1], s2[2], s2[3], s2[4]>>]

\* random_u32 as a function of the state before the call: the state after
\* it and the value returned.
random_u32(s) ==
    LET s1 == overflowing_mul(s, RAND_A)
        s2 == overflowing_add(s1, RAND_C)
    IN  [state |-> s2, value |-> Shr32(s2)]

\* Iterator::next: Some(random_u32()).
LCG_next(s) ==
    LET r == random_u32(s)
    IN  [state |-> r.state, some |-> TRUE, value |-> r.value]

----------------------------------------------------------------------------
(* Coord *)

InI16(v) == I16Min <= v /\ v <= I16Max

\* i16 addition as the release profile computes it (two's complement).
WrapI16(v) == ((v - I16Min) % 65536) + I16Min

\* Coord::step: self.x + velx, self.y + vely.  An overflowing i16 addition
\* panics when the build has overflow checks and wraps otherwise.
Coord_step(c, velx, vely) ==
    IF InI16(c.x + velx) /\ InI16(c.y + vely)
    THEN [panic |-> FALSE, coord |-> [x |-> c.x + velx, y |-> c.y + vely]]
    ELSE IF overflow_checks
         THEN [panic |-> TRUE]
         ELSE [panic |-> FALSE,
               coord |-> [x |-> WrapI16(c.x + velx), y |-> WrapI16(c.y + vely)]]

\* A neighbourhood that lists the cell itself in place of (1, 1).
NeighborsWithSelf(c) ==
    LET s == << Coord_step(c, -1, -1), Coord_step(c, 0, -1), Coord_step(c, 1, -1),
                Coord_step(c, -1, 0), Coord_step(c, 1, 0),
                Coord_step(c, -1, 1), Coord_step(c, 0, 1), Coord_step(c, 0, 0) >>
    IN  IF \E k \in 1..8 : s[k].panic
        THEN [panic |-> TRUE]
        ELSE [panic |-> FALSE, coords |-> [k \in 1..8 |-> s[k].coord]]

\* Coord::neighbors: the eight steps of the vec! literal, in its order.
neighbors(c) ==
    LET n == << Coord_step(c, -1, -1), Coord_step(c, 0, -1), Coord_step(c, 1, -1),
                Coord_step(c, -1, 0), Coord_step(c, 1, 0),
                Coord_step(c, -1, 1), Coord_step(c, 0, 1), Coord_step(c, 1, 1) >>
    IN  IF \E i \in 1..8 : n[i].panic
        THEN [panic |-> TRUE]
        ELSE [panic |-> FALSE, coords |-> [i \in 1..8 |-> n[i].coord]]

\* The % operator of Rust on i16: the remainder truncated towards zero
\* (it has the sign of the dividend).  b > 0.
TruncRem(a, b) == IF a >= 0 THEN a % b ELSE -((-a) % b)

\* A rem_euclid that forgets the correction of negative remainders.
RemTruncating(a, b) == TruncRem(a, b)

\* i16::rem_euclid for rhs > 0: r = self % rhs; if r < 0 { r + rhs } else { r }.
rem_euclid(a, b) ==
    LET r == TruncRem(a, b)
    IN  IF r < 0 THEN r + b ELSE r

\* Coord::wrap.  width as i16 and height as i16 keep the value (0..255);
\* rem_euclid panics on a zero divisor in every build.
wrap(c, w, h) ==
    IF w = 0 \/ h = 0
    THEN [panic |-> TRUE]
    ELSE [panic |-> FALSE,
          coord |-> [x |-> rem_euclid(c.x, w), y |-> rem_euclid(c.y, h)]]

\* i16 as usize sign-extends: a negative value becomes at least
\* 2^64 - 2^15.  The model keeps of that value only that it lies beyond
\* every storage length (at most 255 * 255).
HugeIndex == 1048576
AsUsize(v) == IF v >= 0 THEN v ELSE HugeIndex

\* An index_in that linearizes the coordinate without wrapping it.
IndexInNoWrap(c, w, h) ==
    [panic |-> FALSE, idx |-> AsUsize(c.y) * w + AsUsize(c.x)]

\* Coord::index_in.
index_in(c, w, h) ==
    LET r == wrap(c, w, h)
    IN  IF r.panic
        THEN [panic |-> TRUE]
        ELSE [panic |-> FALSE,
              idx |-> AsUsize(r.coord.y) * w + AsUsize(r.coord.x)]

\* A closure that takes x and y from a single draw.
RandomCoordOneDraw(s) ==
    LET dx == LCG_next(s)
    IN  [panic |-> FALSE, state |-> dx.state,
         coords |-> << [x |-> AsI16(dx.value), y |-> AsI16(dx.value)] >>]

\* One iteration of the closure of Coord::random_coords: x from one draw
\* and y from the next (rng.next().unwrap() panics on None).
RandomCoord(s) ==
    LET dx == LCG_next(s)
        dy == LCG_next(dx.state)
    IN  IF dx.some /\ dy.some
        THEN [panic |-> FALSE, state |-> dy.state,
              coords |-> << [x |-> AsI16(dx.value), y |-> AsI16(dy.value)] >>]
        ELSE [panic |-> TRUE]

\* `take` iterations in sequence, from the generator state s.  The run is
\* split in two halves, the second starting from the state the first ends
\* in, so that the evaluation nests to a depth of log(take).
RECURSIVE RandomCoordsLoop(_, _)
RandomCoordsLoop(s, take) ==
    IF take = 0 THEN [panic |-> FALSE, state |-> s, coords |-> <<>>]
    ELSE IF take = 1 THEN RandomCoord(s)
    ELSE LET a == RandomCoordsLoop(s, take \div 2)
         IN  IF a.panic THEN a
             ELSE LET b == RandomCoordsLoop(a.state, take - take \div 2)
                  IN  IF b.panic THEN b
                      ELSE [panic |-> FALSE, state |-> b.state,
                            coords |-> a.coords \o b.coords]

\* Coord::random_coords: (0..usize::MAX).map(..).take(take).collect() runs
\* the closure exactly `take` times.
random_coords(s, take) == RandomCoordsLoop(s, take)

----------------------------------------------------------------------------
(* GOL *)

CellStatus == {"Alive", "Dead"}

\* GOL::is_alive: self.grid[coord.index_in(..)] == Alive.  Indexing a Vec
\* beyond its length panics.
is_alive(g, w, h, c) ==
    LET i == index_in(c, w, h)
    IN  IF i.panic THEN [panic |-> TRUE, used |-> {}]
        ELSE IF i.idx \notin DOMAIN g THEN [panic |-> TRUE, used |-> {i.idx}]
        ELSE [panic |-> FALSE, used |-> {i.idx}, alive |-> g[i.idx] = "Alive"]

\* The cells in the order the loops of GOL::step visit them:
\* for y in 0..height { for x in 0..width { .. } }.
RowMajor(w, h) ==
    [k \in 1..(w * h) |-> [x |-> (k - 1) % w, y |-> (k - 1) \div w]]

\* A lookup that finds nothing alive beyond the border of the grid.
AliveInside(g, w, h, c) ==
    IF c.x \in 0..(w - 1) /\ c.y \in 0..(h - 1)
    THEN is_alive(g, w, h, c)
    ELSE [panic |-> FALSE, used |-> {}, alive |-> FALSE]

\* A filter for which the border of the grid is a wall.
LookUpInside(g, w, h, n) ==
    << AliveInside(g, w, h, n.coords[1]), AliveInside(g, w, h, n.coords[2]),
       AliveInside(g, w, h, n.coords[3]), AliveInside(g, w, h, n.coords[4]),
       AliveInside(g, w, h, n.coords[5]), AliveInside(g, w, h, n.coords[6]),
       AliveInside(g, w, h, n.coords[7]), AliveInside(g, w, h, n.coords[8]) >>

\* The filter of GOL::step over the neighbours n: is_alive of each of them.
LookUp(g, w, h, n) ==
    << is_alive(g, w, h, n.coords[1]), is_alive(g, w, h, n.coords[2]),
       is_alive(g, w, h, n.coords[3]), is_alive(g, w, h, n.coords[4]),
       is_alive(g, w, h, n.coords[5]), is_alive(g, w, h, n.coords[6]),
       is_alive(g, w, h, n.coords[7]), is_alive(g, w, h, n.coords[8]) >>

\* .count() of the neighbours found alive, and the read of self.grid[idx].
\* Indexing beyond the storage panics.
CountAlive(g, i, look) ==
    LET used == {i.idx} \cup UNION {look[k].used : k \in 1..8}
    IN  IF i.idx \notin DOMAIN g \/ \E k \in 1..8 : look[k].panic
        THEN [panic |-> TRUE, used |-> used]
        ELSE [panic |-> FALSE, used |-> used, idx |-> i.idx,
              status |-> g[i.idx],
              num_live_neighbors |-> Cardinality({k \in 1..8 : look[k].alive})]

\* What one cell of GOL::step reads of the grid g, given idx (i) and the
\* neighbours (n).  An overflow in neighbors() panics.
ReadAround(g, w, h, i, n) ==
    IF i.panic \/ n.panic
    THEN [panic |-> TRUE, used |-> {}]
    ELSE CountAlive(g, i, LookUp(g, w, h, n))

\* What GOL::step reads for the cell c:
\*   let idx = coord.index_in(..);
\*   coord.neighbors().into_iter().filter(|c| self.is_alive(c)).count();
\*   self.grid[idx]
ReadCell(g, w, h, c) == ReadAround(g, w, h, index_in(c, w, h), neighbors(c))

\* A rule table that lets a dead cell with two live neighbours come alive.
RuleBirthOnTwo(status, n) ==
    IF status = "Alive"
    THEN (IF n = 2 \/ n = 3 THEN "Alive" ELSE "Dead")
    ELSE (IF n = 2 \/ n = 3 THEN "Alive" ELSE "Dead")

\* A rule table without the underpopulation arm.
RuleNoUnderpopulation(status, n) ==
    CASE status = "Alive" /\ (n = 2 \/ n = 3) -> "Alive"
      [] status = "Alive" /\ n > 3 -> "Dead"
      [] status = "Dead" /\ n = 3 -> "Alive"
      [] OTHER -> status

\* A rule table that leaves every cell as it is.
RuleStill(status, n) == status

\* A rule table in which no dead cell comes alive.
RuleNoBirth(status, n) ==
    CASE status = "Alive" /\ n < 2 -> "Dead"
      [] status = "Alive" /\ (n = 2 \/ n = 3) -> "Alive"
      [] status = "Alive" /\ n > 3 -> "Dead"
      [] OTHER -> status

\* A rule table without the overpopulation arm.
RuleNoOverpopulation(status, n) ==
    CASE status = "Alive" /\ n < 2 -> "Dead"
      [] status = "Alive" /\ (n = 2 \/ n = 3) -> "Alive"
      [] status = "Dead" /\ n = 3 -> "Alive"
      [] OTHER -> status

\* The match of GOL::step, arm by arm.
Rule(status, n) ==
    CASE status = "Alive" /\ n < 2 -> "Dead"
      [] status = "Alive" /\ (n = 2 \/ n = 3) -> "Alive"
      [] status = "Alive" /\ n > 3 -> "Dead"
      [] status = "Dead" /\ n = 3 -> "Alive"
      [] OTHER -> status

\* next_grid[idx] = match .. : the write of one cell into next_grid (r.grid)
\* from what was read (rd).
WriteCell(r, rd) ==
    IF rd.panic
    THEN [panic |-> TRUE, used |-> r.used \cup rd.used]
    ELSE [panic |-> FALSE, used |-> r.used \cup rd.used,
          grid |-> [r.grid EXCEPT
              ![rd.idx] = Rule(rd.status, rd.num_live_neighbors)]]

\* A loop body that reads the buffer it is writing (an in-place update).
StepCellInPlace(g, r, w, h, c) ==
    IF r.panic THEN r ELSE WriteCell(r, ReadCell(r.grid, w, h, c))

\* The body of the loops of GOL::step for the cell c: reads self.grid (g),
\* writes next_grid (r.grid).  r is the outcome of the iterations before.
StepCell(g, r, w, h, c) ==
    IF r.panic THEN r ELSE WriteCell(r, ReadCell(g, w, h, c))

\* The loops of GOL::step over the cells order[lo..hi], one after the other.
\* The range is split in two halves, the second continuing from the outcome
\* of the first, so that the evaluation nests to a depth of log(hi - lo).
RECURSIVE StepLoop(_, _, _, _, _, _, _)
StepLoop(g, r, w, h, order, lo, hi) ==
    IF lo > hi THEN r
    ELSE IF lo = hi THEN StepCell(g, r, w, h, order[lo])
    ELSE LET mid == (lo + hi) \div 2
             first == StepLoop(g, r, w, h, order, lo, mid)
         IN  IF first.panic THEN first
             ELSE StepLoop(g, first, w, h, order, mid + 1, hi)

\* GOL::step: next_grid = self.grid.clone(); the loops; self.grid = next_grid
\* (the field `grid` of the outcome).
GOL_step(g, w, h) ==
    LET order == RowMajor(w, h)
    IN  StepLoop(g, [panic |-> FALSE, used |-> {}, grid |-> g],
                 w, h, order, 1, Len(order))

\* An iteration that flips the cell instead of setting it.
MarkAliveToggle(r, w, h, coord) ==
    LET i == index_in(coord, w, h)
    IN  IF r.panic THEN r
        ELSE IF i.panic THEN [panic |-> TRUE, used |-> r.used]
        ELSE IF i.idx \notin DOMAIN r.grid
             THEN [panic |-> TRUE, used |-> r.used \cup {i.idx}]
        ELSE [panic |-> FALSE, used |-> r.used \cup {i.idx},
              grid |-> [r.grid EXCEPT
                  ![i.idx] = IF @ = "Alive" THEN "Dead" ELSE "Alive"]]

\* One iteration of the for_each of GOL::from_iter:
\* grid[coord.index_in(..)] = Alive.  r is the outcome so far.
MarkAlive(r, w, h, coord) ==
    LET i == index_in(coord, w, h)
    IN  IF r.panic THEN r
        ELSE IF i.panic THEN [panic |-> TRUE, used |-> r.used]
        ELSE IF i.idx \notin DOMAIN r.grid
             THEN [panic |-> TRUE, used |-> r.used \cup {i.idx}]
        ELSE [panic |-> FALSE, used |-> r.used \cup {i.idx},
              grid |-> [r.grid EXCEPT ![i.idx] = "Alive"]]

\* The for_each over coords[lo..hi], one after the other.
RECURSIVE MarkLoop(_, _, _, _, _, _)
MarkLoop(r, w, h, coords, lo, hi) ==
    IF lo > hi THEN r
    ELSE IF lo = hi THEN MarkAlive(r, w, h, coords[lo])
    ELSE LET mid == (lo + hi) \div 2
             first == MarkLoop(r, w, h, coords, lo, mid)
         IN  IF first.panic THEN first
             ELSE MarkLoop(first, w, h, coords, mid + 1, hi)

\* A from_iter whose storage has one cell too many (0..=width*height).
FromIterOneMore(w, h, coords) ==
    MarkLoop([panic |-> FALSE, used |-> {},
              grid |-> [i \in 0..(w * h) |-> "Dead"]],
             w, h, coords, 1, Len(coords))

\* GOL::from_iter: width * height Dead cells, then the live ones marked.
from_iter(w, h, coords) ==
    MarkLoop([panic |-> FALSE, used |-> {},
              grid |-> [i \in 0..(w * h - 1) |-> "Dead"]],
             w, h, coords, 1, Len(coords))

\* The coordinates of GOL::glider_pattern.
GliderCoords ==
    << [x |-> 0, y |-> 0], [x |-> 1, y |-> 1], [x |-> 2, y |-> 1],
       [x |-> 0, y |-> 2], [x |-> 1, y |-> 2] >>

\* GOL::glider_pattern.
glider_pattern(w, h) == from_iter(w, h, GliderCoords)

----------------------------------------------------------------------------
(* The program: main() and GOL::simulate, and the calls a user of GOL makes *)

MainWidth == 15
MainHeight == 15
MainTake == 100
MainSpeed == 100   \* milliseconds between frames

\* Seconds since the epoch read by LCG::from_sys_timestamp.
Timestamps == {0, 1, 1762000000}

LCG_from_sys_timestamp(now) == LCG_new(U64Of(now))

Dims == {d \in (1..MaxDim) \X (1..MaxDim) : d[1] * d[2] <= MaxCells}

Cells(w, h) == {[x |-> i, y |-> j] : i \in 0..(w - 1), j \in 0..(h - 1)}

\* The coordinates of the set L, listed in row-major order.
ListOf(L, w, h) == SelectSeq(RowMajor(w, h), LAMBDA c : c \in L)

\* Coordinates given to is_alive: inside, around and far from the grid.
ProbeVals == {I16Min, -1, I16Max}
Probes == {[x |-> i, y |-> j] : i \in ProbeVals, j \in ProbeVals}
              \cup {[x |-> 0, y |-> 0], [x |-> MaxDim, y |-> 1]}

NoCall == [op |-> "none"]
NoRuns == <<>>

Init ==
    /\ pc = "start"
    /\ state = U64Zero
    /\ width = 0
    /\ height = 0
    /\ grid = <<>>
    /\ live_coords = <<>>
    /\ gen = 0
    /\ overflow_checks \in BOOLEAN
    /\ panicked = FALSE
    /\ accessed = {}
    /\ call = NoCall
    /\ frames = 0
    /\ screen = <<>>
    /\ runs = NoRuns

\* The program after a constructor returned r (or panicked) for the grid
\* w x h with the live coordinates coords.
Started(w, h, coords, op, r) ==
    /\ width' = w
    /\ height' = h
    /\ live_coords' = coords
    /\ accessed' = r.used
    /\ call' = [op |-> op]
    /\ gen' = 0
    /\ IF r.panic
       THEN /\ panicked' = TRUE
            /\ pc' = "panic"
            /\ grid' = <<>>
       ELSE /\ panicked' = FALSE
            /\ pc' = "render"
            /\ grid' = r.grid
    /\ UNCHANGED <<overflow_checks, frames, screen, runs>>

\* GOL::from_iter(w, h, coords) followed by the start of simulate.
Build(w, h, coords, op) == Started(w, h, coords, op, from_iter(w, h, coords))

\* main(): a generator seeded from the clock, 100 random coordinates,
\* a 15x15 grid.
Main ==
    /\ pc = "start"
    /\ \E now \in Timestamps :
          LET rc == random_coords(LCG_from_sys_timestamp(now), MainTake)
          IN  /\ state' = rc.state
              /\ Build(MainWidth, MainHeight, rc.coords, "main")

\* A grid built from an explicit list of live coordinates.
Construct ==
    /\ pc = "start"
    /\ \E d \in Dims : \E L \in SUBSET Cells(d[1], d[2]) :
          Build(d[1], d[2], ListOf(L, d[1], d[2]), "from_iter")
    /\ UNCHANGED state

\* A loop that prints only every other generation.
RenderSkipping ==
    /\ pc = "render"
    /\ frames' = IF gen % 2 = 0 THEN frames + 1 ELSE frames
    /\ screen' = IF gen % 2 = 0 THEN grid ELSE screen
    /\ accessed' = {index_in(c, width, height).idx : c \in Cells(width, height)}
    /\ call' = [op |-> "print_to_console"]
    /\ pc' = "step"
    /\ UNCHANGED <<state, width, height, grid, live_coords, gen,
                   overflow_checks, panicked, runs>>

\* GOL::print_to_console inside the loop of simulate.
Render ==
    /\ pc = "render"
    /\ frames' = frames + 1
    /\ screen' = grid
    /\ accessed' = {index_in(c, width, height).idx : c \in Cells(width, height)}
    /\ call' = [op |-> "print_to_console"]
    /\ pc' = "step"
    /\ UNCHANGED <<state, width, height, grid, live_coords, gen,
                   overflow_checks, panicked, runs>>

\* The end of GOL::step: self.grid = next_grid, or the panic.
Stepped(r) ==
    /\ accessed' = r.used
    /\ call' = [op |-> "step"]
    /\ IF r.panic
       THEN /\ panicked' = TRUE
            /\ pc' = "panic"
            /\ UNCHANGED <<grid, gen>>
       ELSE /\ panicked' = FALSE
            /\ pc' = "render"
            /\ grid' = r.grid
            /\ gen' = gen + 1

\* GOL::step inside the loop of simulate.
Step ==
    /\ pc = "step"
    /\ gen < MaxGen
    /\ Stepped(GOL_step(grid, width, height))
    /\ UNCHANGED <<state, width, height, live_coords, overflow_checks,
                   frames, screen, runs>>

\* GOL::is_alive(c), asked by whoever displays the grid.
IsAlive ==
    /\ pc = "render"
    /\ \E c \in Probes :
          LET r == is_alive(grid, width, height, c)
          IN  /\ call' = [op |-> "is_alive", c |-> c, ret |-> r]
              /\ accessed' = r.used
              /\ panicked' = r.panic
              /\ pc' = IF r.panic THEN "panic" ELSE "render"
    /\ UNCHANGED <<state, width, height, grid, live_coords, gen,
                   overflow_checks, frames, screen, runs>>

Next == Main \/ Construct \/ Render \/ Step \/ IsAlive

Spec == Init /\ [][Next]_vars

----------------------------------------------------------------------------
(* The generator alone: LCG::new(seed), then draws *)

\* u64 seeds: 0, 1, 2^32 - 1, 2^32, 2^63, 2^64 - 1 and others.
Seeds ==
    { U64Zero,
      <<1, 0, 0, 0, 0, 0, 0, 0>>,
      <<255, 255, 255, 255, 0, 0, 0, 0>>,
      <<0, 0, 0, 0, 1, 0, 0, 0>>,
      <<0, 0, 0, 0, 0, 0, 0, 128>>,
      <<255, 255, 255, 255, 255, 255, 255, 127>>,
      <<255, 255, 255, 255, 255, 255, 255, 255>>,
      <<239, 205, 171, 137, 103, 69, 35, 1>>,
      U64Of(1762000000),
      U64Of(42) }

InitLCG ==
    /\ pc = "lcg"
    /\ \E seed \in Seeds :
          /\ state = LCG_new(seed)
          /\ call = [op |-> "new", seed |-> seed, draws |-> 0]
    /\ width = 0
    /\ height = 0
    /\ grid = <<>>
    /\ live_coords = <<>>
    /\ gen = 0
    /\ overflow_checks \in BOOLEAN
    /\ panicked = FALSE
    /\ accessed = {}
    /\ frames = 0
    /\ screen = <<>>
    /\ runs = NoRuns

\* Iterator::next on the generator.
LcgNext ==
    /\ pc = "lcg"
    /\ call.draws < MaxDraws
    /\ LET r == LCG_next(state)
       IN  /\ state' = r.state
           /\ call' = [op |-> "next", seed |-> call.seed, draws |-> call.draws + 1,
                       before |-> state, some |-> r.some, value |-> r.value]
    /\ UNCHANGED <<pc, width, height, grid, live_coords, gen, overflow_checks,
                   panicked, accessed, frames, screen, runs>>

NextLCG == LcgNext

SpecLCG == InitLCG /\ [][NextLCG]_vars

----------------------------------------------------------------------------
(* Coord alone: the arguments are drawn first, then one function is applied *)

CoordVals == {I16Min, I16Min + 1, I16Max - 1, I16Max, U8Max - 1}
                 \cup (-MaxOff..MaxOff)
DimVals == (1..MaxDim) \cup {5, U8Max}
Velocities == {-1, 0, 1}

InitCoord ==
    /\ pc = "args"
    /\ \E cx \in CoordVals, cy \in CoordVals, w \in DimVals, h \in DimVals :
          call = [op |-> "args", c |-> [x |-> cx, y |-> cy], w |-> w, h |-> h]
    /\ state = U64Zero
    /\ width = 0
    /\ height = 0
    /\ grid = <<>>
    /\ live_coords = <<>>
    /\ gen = 0
    /\ overflow_checks \in BOOLEAN
    /\ panicked = FALSE
    /\ accessed = {}
    /\ frames = 0
    /\ screen = <<>>
    /\ runs = NoRuns

Returned(op, args, ret) ==
    /\ pc = "args"
    /\ pc' = "returned"
    /\ call' = [op |-> op, c |-> call.c, w |-> call.w, h |-> call.h,
                args |-> args, ret |-> ret]
    /\ panicked' = ret.panic
    /\ UNCHANGED <<state, width, height, grid, live_coords, gen, overflow_checks,
                   accessed, frames, screen, runs>>

CallCoordStep ==
    \E velx \in Velocities, vely \in Velocities :
        Returned("step", <<velx, vely>>, Coord_step(call.c, velx, vely))

CallNeighbors == Returned("neighbors", <<>>, neighbors(call.c))

CallWrap == Returned("wrap", <<>>, wrap(call.c, call.w, call.h))

CallIndexIn == Returned("index_in", <<>>, index_in(call.c, call.w, call.h))

NextCoord == CallCoordStep \/ CallNeighbors \/ CallWrap \/ CallIndexIn

SpecCoord == InitCoord /\ [][NextCoord]_vars

----------------------------------------------------------------------------
(* GOL::from_iter alone: the arguments are drawn first, then it is applied *)

IterVals == {I16Min, -1, 0, 1, 2}
IterCoords == {[x |-> i, y |-> j] : i \in IterVals, j \in IterVals}
IterLists == UNION {[1..n -> IterCoords] : n \in 0..MaxLive}

InitFromIter ==
    /\ pc = "args"
    /\ \E w \in 1..MaxDim, h \in 1..MaxDim, coords \in IterLists :
          call = [op |-> "args", w |-> w, h |-> h, coords |-> coords]
    /\ state = U64Zero
    /\ width = 0
    /\ height = 0
    /\ grid = <<>>
    /\ live_coords = <<>>
    /\ gen = 0
    /\ overflow_checks \in BOOLEAN
    /\ panicked = FALSE
    /\ accessed = {}
    /\ frames = 0
    /\ screen = <<>>
    /\ runs = NoRuns

CallFromIter ==
    /\ pc = "args"
    /\ Build(call.w, call.h, call.coords, "from_iter")
    /\ UNCHANGED state

NextFromIter == CallFromIter

SpecFromIter == InitFromIter /\ [][NextFromIter]_vars

----------------------------------------------------------------------------
(* Two executions of the program side by side.  Each is main() with a fixed *)
(* seed: LCG::new(seed), random_coords(take), from_iter(w, h), simulate.    *)
(* The executions share seed, take, width and height and differ in their    *)
(* surroundings: the wall clock and the pause between frames.               *)

RunSeeds == {U64Zero, U64Of(42), U64Of(1762000000),
             <<255, 255, 255, 255, 255, 255, 255, 255>>}
Clocks == {0, 1000}
Speeds == {MainSpeed, 250}

\* The state of an execution when simulate is entered.
StartRun(seed, take, w, h, clock, speed) ==
    LET rc == random_coords(LCG_new(seed), take)
        g == from_iter(w, h, rc.coords)
    IN  [state |-> rc.state, live_coords |-> rc.coords, width |-> w,
         height |-> h, grid |-> IF g.panic THEN <<>> ELSE g.grid,
         panicked |-> rc.panic \/ g.panic, gen |-> 0,
         clock |-> clock, speed |-> speed]

\* A loop that makes up for a long pause by stepping twice.
SimulateCatchUp(r) ==
    LET s1 == GOL_step(r.grid, r.width, r.height)
        s2 == GOL_step(s1.grid, r.width, r.height)
    IN  [r EXCEPT !.grid = IF r.speed > MainSpeed THEN s2.grid ELSE s1.grid,
                  !.gen = @ + 1,
                  !.clock = @ + r.speed]

\* The execution r after a step with outcome s and the sleep.
AfterStep(r, s) ==
    IF s.panic
    THEN [r EXCEPT !.panicked = TRUE]
    ELSE [r EXCEPT !.grid = s.grid,
                   !.gen = @ + 1,
                   !.clock = @ + r.speed]

\* One iteration of the loop of GOL::simulate: print_to_console, step,
\* sleep(speed), clear_console.
SimulateIteration(r) == AfterStep(r, GOL_step(r.grid, r.width, r.height))

InitRuns ==
    /\ pc = "runs"
    /\ \E seed \in RunSeeds, take \in 0..MaxTake, d \in Dims,
          c2 \in Clocks, s2 \in Speeds :
          runs = << StartRun(seed, take, d[1], d[2], 0, MainSpeed),
                    StartRun(seed, take, d[1], d[2], c2, s2) >>
    /\ state = U64Zero
    /\ width = 0
    /\ height = 0
    /\ grid = <<>>
    /\ live_coords = <<>>
    /\ gen = 0
    /\ overflow_checks \in BOOLEAN
    /\ panicked = FALSE
    /\ accessed = {}
    /\ call = NoCall
    /\ frames = 0
    /\ screen = <<>>

RunIteration ==
    /\ pc = "runs"
    /\ \E i \in 1..2 :
          /\ ~runs[i].panicked
          /\ runs[i].gen < MaxGen
          /\ runs' = [runs EXCEPT ![i] = SimulateIteration(runs[i])]
    /\ UNCHANGED <<pc, state, width, height, grid, live_coords, gen,
                   overflow_checks, panicked, accessed, call, frames, screen>>

NextRuns == RunIteration

SpecRuns == InitRuns /\ [][NextRuns]_vars

----------------------------------------------------------------------------
(* Coord::random_coords alone: a generator LCG::new(seed) and a count are  *)
(* drawn first, then the function is applied.                              *)

Takes == (0..MaxTake) \cup {MainTake}

InitRandomCoords ==
    /\ pc = "args"
    /\ \E seed \in Seeds, take \in Takes :
          /\ state = LCG_new(seed)
          /\ call = [op |-> "args", seed |-> seed, take |-> take]
    /\ width = 0
    /\ height = 0
    /\ grid = <<>>
    /\ live_coords = <<>>
    /\ gen = 0
    /\ overflow_checks \in BOOLEAN
    /\ panicked = FALSE
    /\ accessed = {}
    /\ frames = 0
    /\ screen = <<>>
    /\ runs = NoRuns

\* The return of random_coords: the Vec collected, the generator advanced.
RandomCoordsReturned(rc) ==
    /\ pc' = "returned"
    /\ state' = rc.state
    /\ live_coords' = rc.coords
    /\ panicked' = rc.panic
    /\ call' = [op |-> "random_coords", seed |-> call.seed, take |-> call.take]
    /\ UNCHANGED <<width, height, grid, gen, overflow_checks, accessed,
                   frames, screen, runs>>

CallRandomCoords ==
    /\ pc = "args"
    /\ RandomCoordsReturned(random_coords(state, call.take))

NextRandomCoords == CallRandomCoords

SpecRandomCoords == InitRandomCoords /\ [][NextRandomCoords]_vars

----------------------------------------------------------------------------
(* GOL::from_iter with a width or a height of 0 (u8 admits it; nothing in  *)
(* from_iter rejects it).                                                  *)

ZeroDims == {d \in (0..MaxDim) \X (0..MaxDim) : d[1] = 0 \/ d[2] = 0}

InitZeroDim ==
    /\ pc = "args"
    /\ \E d \in ZeroDims, coords \in IterLists :
          call = [op |-> "args", w |-> d[1], h |-> d[2], coords |-> coords]
    /\ state = U64Zero
    /\ width = 0
    /\ height = 0
    /\ grid = <<>>
    /\ live_coords = <<>>
    /\ gen = 0
    /\ overflow_checks \in BOOLEAN
    /\ panicked = FALSE
    /\ accessed = {}
    /\ frames = 0
    /\ screen = <<>>
    /\ runs = NoRuns

NextZeroDim == CallFromIter

SpecZeroDim == InitZeroDim /\ [][NextZeroDim]_vars

----------------------------------------------------------------------------
(* Two executions side by side, the second built from the live coordinates *)
(* of the first moved by (dx, dy).  The executions share nothing, so they  *)
(* are advanced together, one iteration of simulate each.                  *)

\* The two unit translations, which generate every translation, and two
\* that cross the border of every grid diagonally.
Shifts == {<<1, 0>>, <<0, 1>>, <<-1, -1>>, <<2, -1>>}

\* The coordinates moved by (dx, dy), as a caller of from_iter would pass them.
Shifted(coords, dx, dy) ==
    [k \in 1..Len(coords) |-> [x |-> coords[k].x + dx, y |-> coords[k].y + dy]]

\* The state of an execution when simulate is entered with the grid that
\* from_iter built (outcome g).
StartFrom(w, h, coords, g) ==
    [state |-> U64Zero, live_coords |-> coords, width |-> w, height |-> h,
     grid |-> IF g.panic THEN <<>> ELSE g.grid, panicked |-> g.panic,
     gen |-> 0, clock |-> 0, speed |-> MainSpeed]

InitShift ==
    /\ pc = "runs"
    /\ \E d \in Dims, sh \in Shifts : \E L \in SUBSET Cells(d[1], d[2]) :
          /\ call = [op |-> "shift", dx |-> sh[1], dy |-> sh[2]]
          /\ runs = << StartFrom(d[1], d[2], ListOf(L, d[1], d[2]),
                           from_iter(d[1], d[2], ListOf(L, d[1], d[2]))),
                       StartFrom(d[1], d[2],
                           Shifted(ListOf(L, d[1], d[2]), sh[1], sh[2]),
                           from_iter(d[1], d[2],
                               Shifted(ListOf(L, d[1], d[2]), sh[1], sh[2]))) >>
    /\ state = U64Zero
    /\ width = 0
    /\ height = 0
    /\ grid = <<>>
    /\ live_coords = <<>>
    /\ gen = 0
    /\ overflow_checks \in BOOLEAN
    /\ panicked = FALSE
    /\ accessed = {}
    /\ frames = 0
    /\ screen = <<>>

\* Both executions perform one iteration of the loop of simulate.
RunBoth ==
    /\ pc = "runs"
    /\ \A i \in 1..2 : ~runs[i].panicked /\ runs[i].gen < MaxGen
    /\ runs' = << SimulateIteration(runs[1]), SimulateIteration(runs[2]) >>
    /\ UNCHANGED <<pc, state, width, height, grid, live_coords, gen,
                   overflow_checks, panicked, accessed, call, frames, screen>>

NextShift == RunBoth

SpecShift == InitShift /\ [][NextShift]_vars

----------------------------------------------------------------------------
(* The program started from fixed patterns instead of random coordinates:  *)
(* GOL::glider_pattern(w, h) (the alternative left in main) and a blinker  *)
(* given to GOL::from_iter, then simulate.                                 *)

GliderSizes == {8, 9, MainWidth}

BlinkerCoords == << [x |-> 1, y |-> 2], [x |-> 2, y |-> 2], [x |-> 3, y |-> 2] >>

\* let mut gol = GOL::glider_pattern(w, h);
Glider ==
    /\ pc = "start"
    /\ \E w \in GliderSizes, h \in GliderSizes :
          Started(w, h, GliderCoords, "glider_pattern", glider_pattern(w, h))
    /\ UNCHANGED state

\* let mut gol = GOL::from_iter(5, 5, blinker);
Blinker ==
    /\ pc = "start"
    /\ Build(5, 5, BlinkerCoords, "from_iter")
    /\ UNCHANGED state

\* GOL::step inside the loop of simulate, for up to MaxPatternGen generations.
StepPattern ==
    /\ pc = "step"
    /\ gen < MaxPatternGen
    /\ Stepped(GOL_step(grid, width, height))
    /\ UNCHANGED <<state, width, height, live_coords, overflow_checks,
                   frames, screen, runs>>

NextPatterns == Glider \/ Blinker \/ Render \/ StepPattern

SpecPatterns == Init /\ [][NextPatterns]_vars

----------------------------------------------------------------------------
(* Reference arithmetic for the properties.                                *)
(*                                                                         *)
(* Numbers up to 2^128 are compared through their residues modulo nine     *)
(* distinct primes below 2^15, whose product exceeds 2^134: two naturals   *)
(* below that product with the same residues are equal (Chinese remainder  *)
(* theorem), and every intermediate value stays below 2^31.                *)

Primes == {32749, 32719, 32717, 32713, 32707, 32693, 32687, 32653, 32647}

\* The residue modulo m of the number with the given digits in base b,
\* most significant digit first.
RECURSIVE Residue(_, _, _, _)
Residue(digits, b, m, k) ==
    IF k = 0 THEN 0
    ELSE (Residue(digits, b, m, k - 1) * b + digits[k]) % m

OfDecimal(digits, m) == Residue(digits, 10, m, Len(digits))

\* The residue of a number given as bytes, least significant first.
OfBytes(bytes, m) ==
    Residue([i \in 1..Len(bytes) |-> bytes[Len(bytes) + 1 - i]], 256, m, Len(bytes))

DecimalA == <<6,3,6,4,1,3,6,2,2,3,8,4,6,7,9,3,0,0,5>>
DecimalC == <<1,4,4,2,6,9,5,0,4,0,8,8,8,9,6,3,4,0,7>>
Decimal2p64 == <<1,8,4,4,6,7,4,4,0,7,3,7,0,9,5,5,1,6,1,6>>
Decimal2p32 == <<4,2,9,4,9,6,7,2,9,6>>

\* The full 128-bit value of s * RAND_A + RAND_C, 16 bytes.
RECURSIVE WideBytes(_, _, _)
WideBytes(s, k, carry) ==
    IF k > 16 THEN <<>>
    ELSE LET col == [i \in 1..8 |->
                        IF k + 1 - i \in 1..8 THEN s[i] * RAND_A[k + 1 - i] ELSE 0]
             t == carry + SumTo(col, 8) + (IF k <= 8 THEN RAND_C[k] ELSE 0)
         IN  <<t % 256>> \o WideBytes(s, k + 1, t \div 256)

\* new = (s * A + C) mod 2^64: new + q * 2^64 = s * A + C for the quotient
\* q (the upper half of the full value), with A and C as written in decimal.
IsLcgSuccessor(s, new) ==
    LET q == SubSeq(WideBytes(s, 1, 0), 9, 16)
    IN  /\ Len(new) = 8
        /\ \A i \in 1..8 : new[i] \in 0..255
        /\ \A m \in Primes :
              (OfBytes(new, m) + OfBytes(q, m) * OfDecimal(Decimal2p64, m)) % m
                  = (OfBytes(s, m) * OfDecimal(DecimalA, m)
                        + OfDecimal(DecimalC, m)) % m

\* value = new >> 32: new = value * 2^32 + r for the r < 2^32 formed by the
\* low four bytes of new.
IsUpperHalf(new, value) ==
    /\ Len(value) = 4
    /\ \A i \in 1..4 : value[i] \in 0..255
    /\ \A m \in Primes :
          OfBytes(new, m)
              = (OfBytes(value, m) * OfDecimal(Decimal2p32, m)
                    + OfBytes(SubSeq(new, 1, 4), m)) % m

\* The number a u32 below 2^31 stands for.
U32Number(u) == u[1] + 256 * u[2] + 65536 * u[3] + 16777216 * u[4]

\* C6: every draw replaces the state s by (s * 6364136223846793005
\* + 1442695040888963407) mod 2^64 and returns Some of the upper 32 bits of
\* the new state; the first draw after LCG::new(0) returns
\* 1442695040888963407 >> 32 = 335903614.
ThmLcgDraw ==
    call.op = "next" =>
        /\ IsLcgSuccessor(call.before, state)
        /\ IsUpperHalf(state, call.value)
        /\ call.some
        /\ (call.seed = U64Zero /\ call.draws = 1) =>
              /\ call.value[4] < 128
              /\ U32Number(call.value) = 335903614
              /\ \A m \in Primes : OfBytes(state, m) = OfDecimal(DecimalC, m)

\* A draw from a state whose multiplication overflows 64 bits, and the first
\* draw of the generator seeded with 0.
WitLcgDraw ==
    /\ call.op = "next"
    /\ call.draws = MaxDraws
    /\ call.seed = U64Zero
    /\ \E i \in 9..16 : WideBytes(call.before, 1, 0)[i] > 0

----------------------------------------------------------------------------
(* Properties of Coord *)

\* C3: Coord::wrap(w, h) returns (x mod w, y mod h) under Euclidean modulo,
\* inside [0, w) x [0, h), for negative coordinates too.
ThmWrapEuclid ==
    call.op = "wrap" =>
        /\ ~call.ret.panic
        /\ call.ret.coord.x = call.c.x % call.w
        /\ call.ret.coord.y = call.c.y % call.h
        /\ call.ret.coord.x \in 0..(call.w - 1)
        /\ call.ret.coord.y \in 0..(call.h - 1)
        /\ (call.c.x - call.ret.coord.x) % call.w = 0
        /\ (call.c.y - call.ret.coord.y) % call.h = 0

\* wrap of (-1, 0) on a 5x5 grid is (4, 0).
WitWrapEuclid ==
    /\ call.op = "wrap"
    /\ call.c = [x |-> -1, y |-> 0]
    /\ call.w = 5
    /\ call.h = 5
    /\ call.ret.coord = [x |-> 4, y |-> 0]

Offsets8 == ({-1, 0, 1} \X {-1, 0, 1}) \ {<<0, 0>>}

\* C5: Coord::neighbors() returns, without failing, exactly 8 pairwise
\* distinct coordinates, none equal to the input: the input translated by
\* every offset of {-1,0,1} x {-1,0,1} but (0,0).
ClaimNeighborsTotal ==
    call.op = "neighbors" =>
        /\ ~call.ret.panic
        /\ DOMAIN call.ret.coords = 1..8
        /\ \A i, j \in 1..8 : i # j => call.ret.coords[i] # call.ret.coords[j]
        /\ \A i \in 1..8 : call.ret.coords[i] # call.c
        /\ {call.ret.coords[i] : i \in 1..8}
              = {[x |-> call.c.x + o[1], y |-> call.c.y + o[2]] : o \in Offsets8}

----------------------------------------------------------------------------
(* Properties of GOL *)

\* The index of the cell at (x, y) taken modulo the grid.
CellIndex(x, y, w, h) == (y % h) * w + (x % w)

\* The number of offsets o of the Moore neighbourhood for which the cell at
\* (x, y) + o, wrapped, is Alive in g.
LiveAround(g, x, y, w, h) ==
    Cardinality({o \in Offsets8 :
                    g[CellIndex(x + o[1], y + o[2], w, h)] = "Alive"})

\* g2 is the generation after g under the rules of Life.
IsNextGeneration(g, g2, w, h) ==
    /\ DOMAIN g2 = DOMAIN g
    /\ \A x \in 0..(w - 1), y \in 0..(h - 1) :
          LET n == LiveAround(g, x, y, w, h)
              i == CellIndex(x, y, w, h)
          IN  IF n = 3 \/ (g[i] = "Alive" /\ n = 2)
              THEN g2[i] = "Alive"
              ELSE g2[i] = "Dead"

\* C1: one step() sets each cell to Alive exactly when, among its 8 wrapped
\* neighbours in the grid before the call, 3 are Alive, or the cell was Alive
\* and 2 are; every other cell becomes or stays Dead.
ThmStepRules ==
    [][(pc = "step" /\ pc' # "step")
          => (pc' = "render" /\ IsNextGeneration(grid, grid', width, height))]_vars

\* A step has produced a grid with live and dead cells on a 3x3 torus.
WitStepRules ==
    /\ pc = "render"
    /\ gen >= 1
    /\ width = 3
    /\ height = 3
    /\ \E i, j \in DOMAIN grid : grid[i] = "Alive" /\ grid[j] = "Dead"

\* The permutations of 1..n.
Permutations(n) ==
    {f \in [1..n -> 1..n] : \A i, j \in 1..n : i # j => f[i] # f[j]}

\* Orders in which the cells of a w x h grid can be visited: every order for
\* a grid of up to MaxPermCells cells; for a larger grid the reverse of the
\* row-major order, the column-major order, and the row-major order started
\* from its second and from its middle cell.
VisitOrders(w, h) ==
    LET n == w * h
        rm == RowMajor(w, h)
    IN  IF n <= MaxPermCells
        THEN {[k \in 1..n |-> rm[f[k]]] : f \in Permutations(n)}
        ELSE {[k \in 1..n |-> rm[n + 1 - k]],
              [k \in 1..n |-> [x |-> (k - 1) \div h, y |-> (k - 1) % h]],
              [k \in 1..n |-> rm[(k % n) + 1]],
              [k \in 1..n |-> rm[((k - 1 + n \div 2) % n) + 1]]}

\* The outcome of a step that visits the cells in the given order.
StepInOrder(g, w, h, order) ==
    StepLoop(g, [panic |-> FALSE, used |-> {}, grid |-> g],
             w, h, order, 1, Len(order))

\* C2: step() counts neighbours against the grid before the step only: a
\* step visiting the cells in any order yields the grid of the row-major
\* visit; no cell's next status depends on a status written in the same step.
ThmStepOrder ==
    pc = "step" =>
        LET rowmajor == GOL_step(grid, width, height)
        IN  \A order \in VisitOrders(width, height) :
                LET other == StepInOrder(grid, width, height, order)
                IN  /\ ~rowmajor.panic
                    /\ ~other.panic
                    /\ other.grid = rowmajor.grid

\* About to step a 3x3 grid holding a blinker, whose in-place update would
\* depend on the order.
WitStepOrder ==
    /\ pc = "step"
    /\ width = 3
    /\ height = 3
    /\ gen >= 1
    /\ Cardinality({i \in DOMAIN grid : grid[i] = "Alive"}) >= 3
    /\ Cardinality(VisitOrders(width, height)) >= 3

\* C4: index_in is y' * width + x' of the wrapped coordinate, inside
\* [0, width * height); is_alive, step and from_iter use no index outside
\* the cell storage and never fail.
ThmIndexInRange ==
    /\ ~panicked
    /\ pc # "panic"
    /\ accessed \subseteq 0..(width * height - 1)
    /\ accessed \subseteq DOMAIN grid
    /\ call.op = "is_alive" =>
          /\ ~call.ret.panic
          /\ call.ret.used = {CellIndex(call.c.x, call.c.y, width, height)}
    /\ call.op = "step" =>
          accessed = 0..(width * height - 1)

\* is_alive of the coordinate (i16::MIN, i16::MAX) on a grid that was
\* stepped, and a step on the widest grid.
WitIndexInRange ==
    /\ call.op = "is_alive"
    /\ call.c = [x |-> I16Min, y |-> I16Max]
    /\ width = MaxDim
    /\ gen >= 1
    /\ accessed # {}

\* The wrapped positions of a list of coordinates.
WrappedPositions(coords, w, h) ==
    {CellIndex(coords[k].x, coords[k].y, w, h) : k \in 1..Len(coords)}

Reverse(q) == [k \in 1..Len(q) |-> q[Len(q) + 1 - k]]

\* C8: the Alive cells of from_iter(w, h, coords) are exactly the wrapped
\* positions of the coordinates, the others are Dead; the order of the
\* coordinates, repetitions and congruent coordinates make no difference,
\* and the live count is the number of distinct wrapped positions, at most
\* the number of coordinates.
ThmFromIterSet ==
    call.op = "from_iter" =>
        LET live == {i \in DOMAIN grid : grid[i] = "Alive"}
        IN  /\ ~panicked
            /\ DOMAIN grid = 0..(width * height - 1)
            /\ live = WrappedPositions(live_coords, width, height)
            /\ \A i \in DOMAIN grid \ live : grid[i] = "Dead"
            /\ Cardinality(live) <= Len(live_coords)
            /\ from_iter(width, height, Reverse(live_coords)).grid = grid
            /\ from_iter(width, height, live_coords \o live_coords).grid = grid

\* A grid built from two different coordinates that are congruent modulo
\* the grid: one live cell from two coordinates.
WitFromIterSet ==
    /\ call.op = "from_iter"
    /\ Len(live_coords) = 2
    /\ live_coords[1] # live_coords[2]
    /\ width = 3
    /\ height = 2
    /\ Cardinality({i \in DOMAIN grid : grid[i] = "Alive"}) = 1

Constructed == pc \in {"render", "step"}

\* C9: after construction and after any number of steps the storage has
\* width * height cells, each Alive or Dead, and step() leaves width and
\* height as they were.
ThmGridShape ==
    /\ [](Constructed =>
            /\ width \in 1..U8Max
            /\ height \in 1..U8Max
            /\ DOMAIN grid = 0..(width * height - 1)
            /\ \A i \in DOMAIN grid : grid[i] \in CellStatus)
    /\ [][Constructed => (width' = width /\ height' = height)]_vars

\* A 2x3 grid after its last step.
WitGridShape ==
    /\ Constructed
    /\ gen = MaxGen
    /\ width = 2
    /\ height = 3

AllDead == \A i \in DOMAIN grid : grid[i] = "Dead"

\* C10: the 3x3 grid built with only the centre cell (1,1) Alive is all Dead
\* after one step() and after every further step().
ThmLonelyCellDies ==
    (/\ Constructed
     /\ width = 3
     /\ height = 3
     /\ live_coords = << [x |-> 1, y |-> 1] >>
     /\ gen >= 1)
        => AllDead

\* The lonely-cell grid after a first and after a further step.
WitLonelyCellDies ==
    /\ Constructed
    /\ width = 3
    /\ height = 3
    /\ live_coords = << [x |-> 1, y |-> 1] >>
    /\ gen >= 2
    /\ AllDead

----------------------------------------------------------------------------
(* Determinism *)

----------------------------------------------------------------------------
(* Patterns *)

\* The coordinates of the Alive cells of the grid.
AliveCoords ==
    {c \in Cells(width, height) : grid[c.y * width + c.x] = "Alive"}

BlinkerHorizontal == {[x |-> 1, y |-> 2], [x |-> 2, y |-> 2], [x |-> 3, y |-> 2]}
BlinkerVertical == {[x |-> 2, y |-> 1], [x |-> 2, y |-> 2], [x |-> 2, y |-> 3]}

\* C11: the 5x5 grid with (1,2),(2,2),(3,2) Alive has exactly (2,1),(2,2),
\* (2,3) Alive after one step(), the first three again after a second, and
\* alternates between the two for every further step.
ThmBlinker ==
    (/\ Constructed
     /\ width = 5
     /\ height = 5
     /\ live_coords = BlinkerCoords)
        => AliveCoords = (IF gen % 2 = 0 THEN BlinkerHorizontal
                                         ELSE BlinkerVertical)

\* The blinker after an odd number of steps, at least three.
WitBlinker ==
    /\ Constructed
    /\ live_coords = BlinkerCoords
    /\ gen >= 3
    /\ gen % 2 = 1
    /\ AliveCoords = BlinkerVertical

\* C12: the grid of glider_pattern(w, h), w and h at least 8, holds after
\* exactly 4 step() calls the pattern translated by (+1,+1):
\* (1,1),(2,2),(3,2),(1,3),(2,3).
ThmGlider ==
    (/\ Constructed
     /\ live_coords = GliderCoords
     /\ width >= 8
     /\ height >= 8
     /\ gen = 4)
        => /\ AliveCoords = {[x |-> 1, y |-> 1], [x |-> 2, y |-> 2],
                             [x |-> 3, y |-> 2], [x |-> 1, y |-> 3],
                             [x |-> 2, y |-> 3]}
           /\ AliveCoords = {[x |-> GliderCoords[k].x + 1,
                              y |-> GliderCoords[k].y + 1] : k \in 1..5}

\* The glider on the 15x15 grid of main and on a 8x9 grid, after 4 steps.
WitGlider ==
    /\ Constructed
    /\ live_coords = GliderCoords
    /\ gen = 4
    /\ <<width, height>> \in {<<MainWidth, MainHeight>>, <<8, 9>>}
    /\ Cardinality(AliveCoords) = 5

----------------------------------------------------------------------------
(* The number of Alive cells *)

AliveCount(g) == Cardinality({i \in DOMAIN g : g[i] = "Alive"})

\* C13: step() does not conserve the number of Alive cells: on every grid at
\* least 2 wide and 2 high that holds exactly one Alive cell, the count after
\* the step differs from the count before it.
ThmCountChanges ==
    [][(/\ pc = "step"
        /\ pc' = "render"
        /\ width >= 2
        /\ height >= 2
        /\ AliveCount(grid) = 1)
          => AliveCount(grid') # AliveCount(grid)]_vars

\* A 3x3 grid built by from_iter with one Alive cell, one step later: its
\* count is no longer the count it was built with.
WitCountChanges ==
    /\ pc = "render"
    /\ gen = 1
    /\ width = 3
    /\ height = 3
    /\ Cardinality(WrappedPositions(live_coords, width, height)) = 1
    /\ AliveCount(grid) # Cardinality(WrappedPositions(live_coords, width, height))

----------------------------------------------------------------------------
(* Random coordinates *)

\* n successive draws of random_u32 from the state s: the values in order and
\* the state after the last.  The values are formed first, so that the first
\* half is evaluated before the second half starts from its state.
RECURSIVE Draws(_, _)
Draws(s, n) ==
    IF n = 0 THEN [values |-> <<>>, state |-> s]
    ELSE IF n = 1
         THEN LET d == random_u32(s)
              IN  [values |-> <<d.value>>, state |-> d.state]
    ELSE LET a == Draws(s, n \div 2)
             b == Draws(a.state, n - n \div 2)
         IN  [values |-> a.values \o b.values, state |-> b.state]

\* v is the signed 16-bit value with the low 16 bits of the u32 u.
IsLow16Signed(v, u) ==
    /\ v \in I16Min..I16Max
    /\ (v - (u[1] + 256 * u[2])) % 65536 = 0

\* C14: random_coords(rng, n) returns n coordinates and advances the
\* generator by 2n draws; coordinate k (from 0) has x from draw 2k and y from
\* draw 2k+1, each the low 16 bits of the draw as a signed 16-bit value.
ThmRandomCoords ==
    call.op = "random_coords" =>
        LET d == Draws(LCG_new(call.seed), 2 * call.take)
        IN  /\ ~panicked
            /\ Len(live_coords) = call.take
            /\ state = d.state
            /\ \A k \in 0..(call.take - 1) :
                  /\ IsLow16Signed(live_coords[k + 1].x, d.values[2 * k + 1])
                  /\ IsLow16Signed(live_coords[k + 1].y, d.values[2 * k + 2])

\* The 100 coordinates main asks for, among them negative ones and ones
\* beyond the 15x15 grid: nothing was wrapped when they were drawn.
WitRandomCoords ==
    /\ call.op = "random_coords"
    /\ call.take = MainTake
    /\ Len(live_coords) = MainTake
    /\ \E k \in 1..MainTake : live_coords[k].x < 0
    /\ \E k \in 1..MainTake : live_coords[k].y >= MainHeight

----------------------------------------------------------------------------
(* Degenerate grids *)

\* C15: from_iter with width 0 or height 0 yields, without failing, an empty
\* grid with no cells, for every sequence of live coordinates.
ClaimZeroDimEmpty ==
    (call.op = "from_iter" /\ (width = 0 \/ height = 0)) =>
        /\ ~panicked
        /\ pc = "render"
        /\ DOMAIN grid = {}

----------------------------------------------------------------------------
(* The neighbourhood on the torus *)

\* The call was neighbors() on the coordinate of a cell of the w x h grid,
\* as in the loops of GOL::step.
NeighborsOfCell ==
    /\ call.op = "neighbors"
    /\ call.c.x \in 0..(call.w - 1)
    /\ call.c.y \in 0..(call.h - 1)

\* The cells that step() inspects for the cell: the indices of the wrapped
\* neighbours.
InspectedCells ==
    {index_in(call.ret.coords[k], call.w, call.h).idx : k \in 1..8}

EightDistinctCells ==
    /\ ~call.ret.panic
    /\ \A k \in 1..8 : ~index_in(call.ret.coords[k], call.w, call.h).panic
    /\ Cardinality(InspectedCells) = 8
    /\ index_in(call.c, call.w, call.h).idx \notin InspectedCells
    /\ InspectedCells \subseteq 0..(call.w * call.h - 1)

\* C16 as stated: on every grid with width and height in 1..255 the 8 wrapped
\* neighbours of a cell are 8 pairwise distinct cells, none the cell itself.
ClaimEightDistinct == NeighborsOfCell => EightDistinctCells

\* C16 amended: the same on every grid with width and height in 3..255.
ThmEightDistinct ==
    (NeighborsOfCell /\ call.w >= 3 /\ call.h >= 3) => EightDistinctCells

\* The neighbours of the corner cell (254, 0) of a 255 x 3 grid.
WitEightDistinct ==
    /\ NeighborsOfCell
    /\ call.w = U8Max
    /\ call.h = 3
    /\ call.c = [x |-> U8Max - 1, y |-> 0]
    /\ EightDistinctCells

----------------------------------------------------------------------------
(* Translation on the torus *)

\* The grid g with every cell moved by (dx, dy) modulo (w, h).
Translate(g, w, h, dx, dy) ==
    [i \in DOMAIN g |-> g[CellIndex((i % w) - dx, (i \div w) - dy, w, h)]]

\* C17: step() commutes with translation on the torus: the grid built from
\* the translated coordinates is, after every number of steps, the
\* translation of the grid built from the original ones; is_alive(c) equals
\* is_alive of c moved by a multiple of (w, h).
ThmStepTranslation ==
    (pc = "runs" /\ call.op = "shift") =>
        LET w == runs[1].width
            h == runs[1].height
            g == runs[1].grid
        IN  /\ ~runs[1].panicked
            /\ ~runs[2].panicked
            /\ runs[1].gen = runs[2].gen
            /\ runs[2].grid = Translate(g, w, h, call.dx, call.dy)
            /\ \A c \in Cells(w, h) : \A k \in {-2, -1, 1, 2} :
                  LET far == is_alive(g, w, h, [x |-> c.x + k * w, y |-> c.y + k * h])
                      near == is_alive(g, w, h, c)
                  IN  /\ ~far.panic
                      /\ ~near.panic
                      /\ far.alive = near.alive
                      /\ near.alive = (g[c.y * w + c.x] = "Alive")

\* A 3x3 grid with live and dead cells, moved across the border by (2,-1),
\* after its steps.
WitStepTranslation ==
    /\ pc = "runs"
    /\ call.op = "shift"
    /\ call.dx = 2
    /\ call.dy = -1
    /\ runs[1].width = 3
    /\ runs[1].height = 3
    /\ runs[1].gen = MaxGen
    /\ runs[2].gen = MaxGen
    /\ runs[1].grid # runs[2].grid
    /\ \E i \in DOMAIN runs[1].grid : runs[1].grid[i] = "Alive"

----------------------------------------------------------------------------
(* The loop of simulate *)

\* The grid g of width w and height h after n step() calls.
RECURSIVE Advance(_, _, _, _)
Advance(g, w, h, n) ==
    IF n = 0 THEN g ELSE GOL_step(Advance(g, w, h, n - 1), w, h).grid

\* C18: simulate alternates render and step, starting with a render and
\* never leaving the loop or failing; the n-th frame printed is the initial grid after
\* n - 1 step() calls: every generation is printed once, none is skipped,
\* and no grid in the middle of a step is printed.
ThmSimulateFrames ==
    /\ [](Constructed =>
            /\ pc = "render" => frames = gen
            /\ pc = "step" =>
                  /\ frames = gen + 1
                  /\ screen = grid
                  /\ screen = Advance(from_iter(width, height, live_coords).grid,
                                      width, height, frames - 1))
    /\ [][Constructed =>
            /\ Constructed'
            /\ pc' # pc =>
                  \/ /\ pc = "render"
                     /\ pc' = "step"
                     /\ frames' = frames + 1
                     /\ screen' = grid
                     /\ grid' = grid
                     /\ gen' = gen
                  \/ /\ pc = "step"
                     /\ pc' = "render"
                     /\ gen' = gen + 1
                     /\ frames' = frames
                     /\ screen' = screen
            /\ pc' = pc => /\ frames' = frames
                           /\ screen' = screen
                           /\ grid' = grid
                           /\ gen' = gen]_vars

\* The last frame of the 15x15 grid of main, which differs from the first.
WitSimulateFrames ==
    /\ pc = "step"
    /\ frames = MaxGen + 1
    /\ gen = MaxGen
    /\ width = MainWidth
    /\ height = MainHeight
    /\ screen = grid
    /\ grid # from_iter(width, height, live_coords).grid
    /\ \E i \in DOMAIN grid : grid[i] = "Alive"

====
